---- MODULE Spec2Model ----
(***************************************************************************)
(* Velocity rate limiter: the shard router (RedisShardManager.GetClient),  *)
(* the token-bucket Lua script, RateLimiter.Allow and RateLimitMiddleware  *)
(* of main.go, run by concurrent request goroutines against Redis shards.  *)
(*                                                                         *)
(* Time is counted in whole seconds.  Token amounts are counted in         *)
(* sub-units, Unit sub-units to one token, and the rate in sub-units per   *)
(* second, so that fractional token counts and fractional rates occur.     *)
(* A 32-bit hash value is kept as its two 16-bit halves [hi, lo].          *)
(***************************************************************************)
EXTENDS Integers, Sequences, FiniteSets, TLC

\* ------------------------------------------------------------------ bounds
Unit        == 3   \* sub-units per token
MaxRate     == 3   \* rate ranges over 1..MaxRate sub-units per second
MaxCapacity == 2   \* capacity ranges over 1..MaxCapacity tokens
MaxShards   == 2   \* the topology has 1..MaxShards shards
NumCallers  == 2   \* concurrent request goroutines
MaxCalls    == 4   \* script executions recorded in one behaviour
MaxTicks    == 1   \* one-second steps of the clock between idle periods
MaxIdle     == 1   \* idle periods of ExpireSeconds
MaxLen      == 2   \* length of the identities given to the router alone
MaxEnv      == 3   \* length of the values of REDIS_ADDRS and REDIS_ADDR
MaxSkew     == 2   \* seconds by which one caller's clock is ahead of the other's
MaxSeconds  == 10  \* seconds over which the float64 arithmetic of the script is followed

\* ------------------------------------------------------- program constants
ExpireSeconds == 3600

Half == 2^16

\* a float64 below 16 is a whole number of 2^-56; it is kept as three limbs of 20 bits
Limb == 2^20

\* ------------------------------------------------------------------- state
VARIABLES
    boot,        \* construction: the shard manager, the limiter, and the build's int(+Inf)
    rate,        \* RateLimiter.rate, sub-units per second
    capacity,    \* RateLimiter.capacity, sub-units
    intBits,     \* width of Go's int in this build: 32 or 64
    shardCount,  \* len(rsm.shards)
    clock,       \* real time, seconds
    store,       \* store[s][key]: the hash at key on shard s, or Absent
    up,          \* up[s]: shard s answers, and answers in shape
    hung,        \* hung[s]: shard s takes the request and never answers
    running,     \* running[s]: the caller whose script shard s is executing, or 0
    pc,          \* pc[p]: position of request goroutine p
    req,         \* req[p]: the locals of p's request, and what its script read and wrote
    resp,        \* resp[p]: what the middleware answered to p's request
    calls,       \* requests begun so far
    serial,      \* history: the buckets obtained by applying the scripts one after another
    linear,      \* history: every script so far returned what its serial application returns
    grants,      \* history: per identity, the timestamps of the allowed calls, ascending
    hist,        \* history: per identity, the calls of its first burst
    mon,         \* history: per identity, the back-to-back calls that follow a denial
    own,         \* history: per limiter and identity, the bucket that limiter alone would hold
    dbl          \* the script's float64 arithmetic on one identity: the bucket, and the
                 \* bucket of the same calls without the denied ones

vars == <<boot, rate, capacity, intBits, shardCount, clock, store, up, hung, running, pc, req,
          resp, calls, serial, linear, grants, hist, mon, own, dbl>>

Callers == 1..NumCallers

\* the client addresses (c.IP()) that send requests, as byte strings: "1" and "b"
Identities == {<<49>>, <<98>>}

RECURSIVE SeqsUpTo(_, _)
SeqsUpTo(S, n) ==
    IF n = 0 THEN {<<>>}
    ELSE LET shorter == SeqsUpTo(S, n - 1)
         IN  shorter \cup {Append(q, c) : q \in shorter, c \in S}

\* the identities given to the router alone: every string over "1", "a", "b" up to MaxLen
RouterIdentities == SeqsUpTo({49, 97, 98}, MaxLen)

Min(a, b) == IF a <= b THEN a ELSE b

Absent == [present |-> FALSE]

\* ------------------------------------------------------------- 32-bit hash

RECURSIVE Xor(_, _)
\* bitwise exclusive or of two naturals
Xor(a, b) ==
    IF a = 0 THEN b
    ELSE IF b = 0 THEN a
    ELSE (((a % 2) + (b % 2)) % 2) + 2 * Xor(a \div 2, b \div 2)

\* hash/fnv: offset32 = 2166136261 = 0x811c9dc5
FnvOffset32 == [hi |-> 33052, lo |-> 40389]

\* hash/fnv: one step of sum32a.Write: hash ^= byte; hash *= prime32 (16777619 = 2^24 + 403),
\* in 32-bit unsigned arithmetic
FnvStep(h, byte) ==
    LET lo1  == Xor(h.lo, byte)
        lo4  == lo1 * 403
        hi1  == (h.hi * 403 + (lo4 \div Half) + (lo1 % 256) * 256) % Half
    IN  [hi |-> hi1, lo |-> lo4 % Half]

RECURSIVE FnvFold(_, _)
FnvFold(h, bytes) ==
    IF bytes = <<>> THEN h ELSE FnvFold(FnvStep(h, Head(bytes)), Tail(bytes))

\* fnv.New32a(); hash.Write([]byte(userID)); hash.Sum32()
Fnv32a(userID) == FnvFold(FnvOffset32, userID)

\* the mathematical value of h modulo n (n small)
HashMod(h, n) == ((h.hi % n) * (Half % n) + h.lo) % n

\* int(hashValue): the sign and the magnitude of the converted value.  A 64-bit int
\* holds every uint32; a 32-bit int wraps values >= 2^31 to hashValue - 2^32.
IntOfUint32(h, bits) ==
    IF bits = 32 /\ h.hi >= 32768
    THEN [neg |-> TRUE,
          mag |-> IF h.lo = 0 THEN [hi |-> Half - h.hi, lo |-> 0]
                  ELSE [hi |-> Half - 1 - h.hi, lo |-> Half - h.lo]]
    ELSE [neg |-> FALSE, mag |-> h]

\* Go's a % n: the remainder has the sign of the dividend
GoRem(a, n) == IF a.neg THEN 0 - HashMod(a.mag, n) ELSE HashMod(a.mag, n)

\* shardIndex := int(hashValue) % len(rsm.shards)
ShardIndex(userID, n, bits) == GoRem(IntOfUint32(Fnv32a(userID), bits), n)

\* rsm.shards[shardIndex]: the selected shard, or a run-time panic (index out of range)
GetClient(userID, n, bits) ==
    LET i == ShardIndex(userID, n, bits)
    IN  IF 0 <= i /\ i < n THEN [ok |-> TRUE, shard |-> i] ELSE [ok |-> FALSE, shard |-> i]

\* ------------------------------------------------------------ the store

\* one key for every identity
KeyShared(userID) == <<114, 97, 116, 101, 108, 105, 109, 105, 116, 58>>

\* key := fmt.Sprintf("ratelimit:%s", userID)
KeyOf(userID) == <<114, 97, 116, 101, 108, 105, 109, 105, 116, 58>> \o userID

Keys == {KeyOf(id) : id \in Identities}

Shards == 0..(MaxShards - 1)

\* tokens >= requested ... tokens = tokens - requested, with requested = ARGV[4] = 1.0
Requested == Unit

\* a script without defaults: a field that cannot be read counts as 0
FieldOrZero(bucket, field, default) ==
    IF bucket.present /\ field \notin bucket.bad THEN bucket[field] ELSE 0

\* tonumber(bucket[i]) or default: a field that is missing, or that is no number, gives
\* the default
FieldOr(bucket, field, default) ==
    IF bucket.present /\ field \notin bucket.bad THEN bucket[field] ELSE default

\* the refill that forgets the rate
RefillNoRate(tokens, elapsed, r, cap) ==
    IF elapsed > 0 THEN Min(cap, tokens + elapsed) ELSE tokens

\* the refill applied to a negative elapsed time as well
RefillSigned(tokens, elapsed, r, cap) ==
    IF elapsed # 0 THEN Min(cap, tokens + elapsed * r) ELSE tokens

\* the refill without its cap
RefillUncapped(tokens, elapsed, r, cap) ==
    IF elapsed > 0 THEN tokens + elapsed * r ELSE tokens

\* math.min(capacity, tokens + tokensToAdd) under "if elapsed > 0"
Refill(tokens, elapsed, r, cap) ==
    IF elapsed > 0 THEN Min(cap, tokens + elapsed * r) ELSE tokens

\* the script with its check against zero instead of the requested amount
ScriptChecksZero(bucket, r, cap, now, requested) ==
    LET tokens0     == FieldOr(bucket, "tokens", cap)
        lastRefill0 == FieldOr(bucket, "lastRefill", now)
        tokens1     == Refill(tokens0, now - lastRefill0, r, cap)
        allowed     == tokens1 >= 0
    IN  [allowed    |-> IF allowed THEN 1 ELSE 0,
         tokens     |-> IF allowed THEN tokens1 - requested ELSE tokens1,
         lastRefill |-> now]

\* a script that leaves the bucket as it read it when it denies
ScriptSkipsDenied(bucket, r, cap, now, requested) ==
    LET tokens0     == FieldOr(bucket, "tokens", cap)
        lastRefill0 == FieldOr(bucket, "lastRefill", now)
        tokens1     == Refill(tokens0, now - lastRefill0, r, cap)
        allowed     == tokens1 >= requested
    IN  [allowed    |-> IF allowed THEN 1 ELSE 0,
         tokens     |-> IF allowed THEN tokens1 - requested ELSE tokens0,
         lastRefill |-> IF allowed THEN now ELSE lastRefill0]

\* tokenBucketLuaScript from HMGET's reply to the values written and returned
Script(bucket, r, cap, now, requested) ==
    LET tokens0     == FieldOr(bucket, "tokens", cap)
        lastRefill0 == FieldOr(bucket, "lastRefill", now)
        tokens1     == Refill(tokens0, now - lastRefill0, r, cap)
        allowed     == tokens1 >= requested
    IN  [allowed    |-> IF allowed THEN 1 ELSE 0,
         tokens     |-> IF allowed THEN tokens1 - requested ELSE tokens1,
         lastRefill |-> now]

\* a script that sets the expiry from the caller's timestamp
WrittenExpiresFromNow(r, at) ==
    [present |-> TRUE, tokens |-> r.tokens, lastRefill |-> r.lastRefill, bad |-> {},
     expireAt |-> r.lastRefill + ExpireSeconds]

\* redis.call('HMSET', key, 'tokens', tokens, 'lastRefill', now); redis.call('EXPIRE', key, 3600)
Written(r, at) ==
    [present |-> TRUE, tokens |-> r.tokens, lastRefill |-> r.lastRefill, bad |-> {},
     expireAt |-> at + ExpireSeconds]

\* return {allowed, tokens}: Redis converts a Lua number of a reply to an integer,
\* dropping its fraction
LuaReply(r) ==
    [kind |-> "ok", allowed |-> r.allowed, tokens |-> (r.tokens \div Unit) * Unit]

\* a key whose time to live has run out is gone
Purge(b, t) == IF b.present /\ b.expireAt <= t THEN Absent ELSE b

\* a store that lets scripts overlap
ScriptMayStartAnyTime(s) == TRUE

\* the script runs alone on its shard: Redis executes one script at a time
ScriptMayStart(s) == running[s] = 0

\* --------------------------------------------------- Allow and the middleware

\* script.Run returned an error
ErrKinds == {"unreachable", "timeout", "script_error"}

\* replies outside the script's {allowed, tokens}
BadShapes == {"not_array", "short_array", "bad_allowed_type", "bad_tokens_type"}

\* an Allow that returns neither a result nor an error for a reply it cannot parse
AllowNilOnBadShape(reply) ==
    IF reply.kind \in ErrKinds
    THEN [result |-> FALSE, err |-> TRUE, logged |-> 1]
    ELSE IF reply.kind \in BadShapes
    THEN [result |-> FALSE, err |-> FALSE, logged |-> 0]
    ELSE [result |-> TRUE, err |-> FALSE, logged |-> 0, Allowed |-> (reply.allowed = 1),
          Remaining |-> reply.tokens]

\* RateLimiter.Allow after script.Run: the result and the error it returns, and the
\* lines it logs.  result says that the *AllowResult is not nil, err that the error is
\* not nil; the fields Allowed and Remaining exist with a result only.
AllowResult(reply) ==
    IF reply.kind \in ErrKinds
    THEN [result |-> FALSE, err |-> TRUE, logged |-> 1]
    ELSE IF reply.kind \in BadShapes
    THEN [result |-> FALSE, err |-> TRUE, logged |-> 0]
    ELSE [result |-> TRUE, err |-> FALSE, logged |-> 0, Allowed |-> (reply.allowed = 1),
          Remaining |-> reply.tokens]

\* stands for 2^(w-1), w the width of the build's int: a magnitude beyond every delay
BeyondInt == 2^30

\* int(x) of a float64 x that is not finite: the conversion succeeds with a value that
\* depends on the implementation.  Builds that saturate give the largest int for +Inf
\* and 0 for NaN, the others give the most negative int for both.
IntOfInf == IF boot.saturates THEN BeyondInt - 1 ELSE 0 - BeyondInt

IntOfNaN == IF boot.saturates THEN 0 ELSE 0 - BeyondInt

\* retryAfter of the middleware: tokensNeeded / rate, at least 1, cut to an int.  With
\* rate = 0 the quotient is +Inf (or NaN for 0 / 0), which is not below 1.0.
RetryAfter(remaining, r) ==
    LET needed0 == Unit - remaining
        needed  == IF needed0 < 0 THEN Unit ELSE needed0
    IN  IF r = 0 THEN (IF needed = 0 THEN IntOfNaN ELSE IntOfInf)
        ELSE IF needed < r THEN 1 ELSE needed \div r

\* fmt.Sprintf("%.0f", x): x rounded to the nearest whole number, a half to the even one
Format0f(x) ==
    LET q == x \div Unit
        f == x % Unit
    IN  IF 2 * f > Unit THEN q + 1
        ELSE IF 2 * f = Unit THEN q + (q % 2)
        ELSE q

NoResp == [status |-> "none"]

\* a middleware that fails closed
MiddlewareFailClosed(res, r, cap) ==
    IF res.err
    THEN [status |-> "429", degraded |-> res.logged + 1, headers |-> {}]
    ELSE IF ~res.Allowed
    THEN [status |-> "429", degraded |-> 0, headers |-> {}]
    ELSE [status |-> "next", degraded |-> 0, headers |-> {}]

\* a middleware that sets the retry header on every decision
MiddlewareAlwaysRetry(res, r, cap) ==
    IF res.err
    THEN [status |-> "next", degraded |-> res.logged + 1, headers |-> {}]
    ELSE [status |-> IF res.Allowed THEN "next" ELSE "429", degraded |-> 0,
          headers |-> {<<"X-RateLimit-Limit", Format0f(cap)>>,
                       <<"X-RateLimit-Remaining", Format0f(res.Remaining)>>,
                       <<"X-RateLimit-Retry-After", RetryAfter(res.Remaining, r)>>}]

\* the handler returned by RateLimitMiddleware, from Allow's return to its own; without
\* an error it reads result.Remaining, which panics on a nil result
Middleware(res, r, cap) ==
    IF res.err
    THEN [status |-> "next", degraded |-> res.logged + 1, headers |-> {}]
    ELSE IF ~res.result
    THEN [status |-> "panic"]
    ELSE IF ~res.Allowed
    THEN [status |-> "429", degraded |-> 0,
          headers |-> {<<"X-RateLimit-Limit", Format0f(cap)>>,
                       <<"X-RateLimit-Remaining", Format0f(res.Remaining)>>,
                       <<"X-RateLimit-Retry-After", RetryAfter(res.Remaining, r)>>}]
    ELSE [status |-> "next", degraded |-> 0,
          headers |-> {<<"X-RateLimit-Limit", Format0f(cap)>>,
                       <<"X-RateLimit-Remaining", Format0f(res.Remaining)>>}]

\* replies of the documented types whose values the script never returns
OddReplies ==
    {[kind |-> "ok", allowed |-> 2, tokens |-> 0],
     [kind |-> "ok", allowed |-> 0, tokens |-> 3 * Unit],
     [kind |-> "long_array", allowed |-> 1, tokens |-> 0]}

\* the documented reply: an array of exactly two elements, allowed in {0, 1} and a
\* token count
InShape(reply) == reply.kind = "ok" /\ reply.allowed \in {0, 1}

\* ----------------------------------------------------------------- history

RECURSIVE InsertSorted(_, _)
\* the ascending sequence q with t added
InsertSorted(q, t) ==
    IF q = <<>> THEN <<t>>
    ELSE IF t <= Head(q) THEN <<t>> \o q
    ELSE <<Head(q)>> \o InsertSorted(Tail(q), t)

NoBurst == [burst |-> FALSE, served |-> 0, granted |-> 0]

\* a call on the identity begins: the burst goes on while none of its calls was served
HistBegin(h, beingServed) ==
    IF h.burst /\ h.served = 0 /\ ~beingServed THEN h ELSE NoBurst

HistServed(h, allowed) ==
    IF h.burst THEN [h EXCEPT !.served = @ + 1, !.granted = @ + allowed] ELSE h

NoEpisode == [phase |-> "none", left |-> 0, t0 |-> 0, t1 |-> 0, count |-> 0]

NoLast == [closed |-> FALSE, left |-> 0, d |-> 0, count |-> 0]

\* the calls after a denial at t0 that left `left` tokens: the calls that follow with one
\* and the same now = t1 >= t0 are counted up to the first denial among them, which
\* closes the episode into `last` and opens the next one
MonStep(m, now, r) ==
    IF r.allowed = 1
    THEN IF m.ep.phase = "denied" /\ now >= m.ep.t0
         THEN [m EXCEPT !.ep = [@ EXCEPT !.phase = "burst", !.t1 = now, !.count = 1]]
         ELSE IF m.ep.phase = "burst" /\ now = m.ep.t1
         THEN [m EXCEPT !.ep.count = @ + 1]
         ELSE [m EXCEPT !.ep = NoEpisode]
    ELSE LET opened == [phase |-> "denied", left |-> r.tokens, t0 |-> now, t1 |-> now,
                        count |-> 0]
         IN  IF m.ep.phase = "burst" /\ now = m.ep.t1
             THEN [ep |-> opened,
                   last |-> [closed |-> TRUE, left |-> m.ep.left, d |-> m.ep.t1 - m.ep.t0,
                             count |-> m.ep.count]]
             ELSE IF m.ep.phase = "denied" /\ now >= m.ep.t0
             THEN [ep |-> opened,
                   last |-> [closed |-> TRUE, left |-> m.ep.left, d |-> now - m.ep.t0,
                             count |-> 0]]
             ELSE [m EXCEPT !.ep = opened]

\* ------------------------------------------------------------------ actions

NoReply == [kind |-> "none"]

\* what is remembered of a reply that is not the script's: its class
ReplyClass(reply) ==
    IF reply.kind \in ErrKinds THEN [kind |-> "error"]
    ELSE IF reply.kind \in BadShapes THEN [kind |-> "malformed"]
    ELSE [kind |-> "odd", inShape |-> InShape(reply), allowed |-> reply.allowed]

\* Allow has not returned
NoReturn == [made |-> FALSE, result |-> FALSE, err |-> FALSE]

\* what Allow returned: whether its result and its error are not nil
Returned(res) == [made |-> TRUE, result |-> res.result, err |-> res.err]

NoReq == [userID |-> <<>>, via |-> 1, shard |-> 0, now |-> 0, at |-> 0, read |-> Absent,
          wrote |-> Absent, reply |-> NoReply, returned |-> NoReturn]

\* ------------------------------------------------- the script's arithmetic
\* Lua numbers are float64.  A float64 x with 0 <= x < 16 that is a whole number of 2^-56
\* is kept exactly as [hi, mid, lo] with x * 2^56 = hi * Limb^2 + mid * Limb + lo; every
\* operation rounds its exact result to 53 significant bits, to nearest, ties to even.

\* the limbs after the carries
Carry(hi, mid, lo) ==
    [hi  |-> hi + (mid + lo \div Limb) \div Limb,
     mid |-> (mid + lo \div Limb) % Limb,
     lo  |-> lo % Limb]

RECURSIVE BitLen(_)
\* the number of bits of n
BitLen(n) == IF n <= 0 THEN 0 ELSE 1 + BitLen(n \div 2)

\* the numbers that are kept: whole numbers of 2^-56 in limbs
Exact == [hi : Int, mid : Int, lo : Int]

\* the float64 nearest to the exact v: 53 bits are kept, the hi limb holding 13 of them
RoundEven(v) ==
    LET Nearest[x \in Exact] ==
            LET drop == BitLen(x.hi) - 13
                q    == 2^drop
                low  == x.lo % q
                away == 2 * low > q \/ (2 * low = q /\ (x.lo \div q) % 2 = 1)
            IN  IF drop <= 0 THEN x
                ELSE Carry(x.hi, x.mid, x.lo - low + (IF away THEN q ELSE 0))
    IN  Nearest[v]

\* v + w
FAdd(v, w) ==
    LET Sum[x \in Exact, y \in Exact] ==
            RoundEven(Carry(x.hi + y.hi, x.mid + y.mid, x.lo + y.lo))
    IN  Sum[v, w]

\* v - w for v >= w
FSub(v, w) ==
    LET Difference[x \in Exact, y \in Exact] ==
            RoundEven(Carry(x.hi - y.hi - 1, x.mid - y.mid + Limb - 1, x.lo - y.lo + Limb))
    IN  Difference[v, w]

\* n * v for a whole number n below 2^11
FMul(n, v) ==
    LET Product[x \in Exact] == RoundEven(Carry(n * x.hi, n * x.mid, n * x.lo))
    IN  Product[v]

\* x < y
FLess(x, y) ==
    \/ x.hi < y.hi
    \/ x.hi = y.hi /\ x.mid < y.mid
    \/ x.hi = y.hi /\ x.mid = y.mid /\ x.lo < y.lo

\* math.min(v, w)
FMin(v, w) ==
    LET Smaller[x \in Exact, y \in Exact] == IF FLess(y, x) THEN y ELSE x
    IN  Smaller[v, w]

FZero == [hi |-> 0, mid |-> 0, lo |-> 0]

\* 1.0, the requested amount (ARGV[4]) and the capacity of the smallest bucket
FOne == [hi |-> 2^16, mid |-> 0, lo |-> 0]

\* the rates 0.1, 0.2, 0.3 and 0.5 as the float64 that Go passes to the script
FloatRates ==
    {[hi |-> 6553, mid |-> 629145, lo |-> 629146],
     [hi |-> 13107, mid |-> 209715, lo |-> 209716],
     [hi |-> 19660, mid |-> 838860, lo |-> 838860],
     [hi |-> 2^15, mid |-> 0, lo |-> 0]}

\* the capacities 1.0 and 2.0
FloatCapacities == {FOne, [hi |-> 2^17, mid |-> 0, lo |-> 0]}

NoFloatBucket == [present |-> FALSE, tokens |-> FZero, lastRefill |-> 0]

\* a script that forgets on a denial the refill it computed
ScriptFloatLosesRefill(bucket, r, cap, now) ==
    LET tokens0     == IF bucket.present THEN bucket.tokens ELSE cap
        lastRefill0 == IF bucket.present THEN bucket.lastRefill ELSE now
        elapsed     == now - lastRefill0
        tokensToAdd == FMul(IF elapsed > 0 THEN elapsed ELSE 0, r)
        Consume[tokens1 \in Exact] ==
            [allowed |-> IF FLess(tokens1, FOne) THEN 0 ELSE 1,
             level   |-> tokens1,
             tokens  |-> IF FLess(tokens1, FOne) THEN tokens0 ELSE FSub(tokens1, FOne),
             lastRefill |-> now]
    IN  Consume[IF elapsed > 0 THEN FMin(cap, FAdd(tokens0, tokensToAdd)) ELSE tokens0]

\* tokenBucketLuaScript in the arithmetic of Lua, for a bucket whose fields are numbers:
\* the decision, the token level it was taken on, and the values written
ScriptFloat(bucket, r, cap, now) ==
    LET tokens0     == IF bucket.present THEN bucket.tokens ELSE cap
        lastRefill0 == IF bucket.present THEN bucket.lastRefill ELSE now
        elapsed     == now - lastRefill0
        tokensToAdd == FMul(IF elapsed > 0 THEN elapsed ELSE 0, r)
        Consume[tokens1 \in Exact] ==
            [allowed |-> IF FLess(tokens1, FOne) THEN 0 ELSE 1,
             level   |-> tokens1,
             tokens  |-> IF FLess(tokens1, FOne) THEN tokens1 ELSE FSub(tokens1, FOne),
             lastRefill |-> now]
    IN  Consume[IF elapsed > 0 THEN FMin(cap, FAdd(tokens0, tokensToAdd)) ELSE tokens0]

\* HMSET writes a Lua number with 17 significant digits, which HMGET and tonumber give
\* back unchanged
FloatWritten(r) == [present |-> TRUE, tokens |-> r.tokens, lastRefill |-> r.lastRefill]

NoFloatCall == [made |-> FALSE, agreed |-> TRUE, skipped |-> 0,
                polled |-> [allowed |-> 0, level |-> FZero],
                quiet |-> [allowed |-> 0, level |-> FZero]]

\* no limiter is followed in float64
NoDouble == [on |-> FALSE, t |-> 0, rate |-> FZero, capacity |-> FZero,
             polled |-> NoFloatBucket, quiet |-> NoFloatBucket, agreed |-> TRUE,
             skipped |-> 0, last |-> NoFloatCall]

\* ------------------------------------------------------------ the topology

\* the characters of the environment's values: two of addresses, the comma, the blank
EnvChars == {"g", "h", ",", " "}

\* the values of an environment variable; os.Getenv gives "" for one that is not set
EnvValues == SeqsUpTo(EnvChars, MaxEnv)

DefaultAddress == <<"localhost:6379">>

RECURSIVE Split(_)
\* strings.Split(s, ","): the parts between the commas, empty ones included
Split(s) ==
    IF s = <<>> THEN << <<>> >>
    ELSE IF Head(s) = "," THEN << <<>> >> \o Split(Tail(s))
    ELSE LET rest == Split(Tail(s))
         IN  << <<Head(s)>> \o Head(rest) >> \o Tail(rest)

RECURSIVE TrimLeft(_)
TrimLeft(s) == IF s # <<>> /\ Head(s) = " " THEN TrimLeft(Tail(s)) ELSE s

RECURSIVE TrimRight(_)
TrimRight(s) ==
    IF s # <<>> /\ s[Len(s)] = " " THEN TrimRight(SubSeq(s, 1, Len(s) - 1)) ELSE s

\* strings.TrimSpace(part)
TrimSpace(s) == TrimRight(TrimLeft(s))

RECURSIVE Entries(_)
\* for _, part := range parts: the trimmed parts that are not empty, in their order
Entries(parts) ==
    IF parts = <<>> THEN <<>>
    ELSE LET addr == TrimSpace(Head(parts))
         IN  (IF addr # <<>> THEN <<addr>> ELSE <<>>) \o Entries(Tail(parts))

\* a parse that keeps the blanks around an address and the empty entries
ParseUntrimmed(env) ==
    Split(IF env.REDIS_ADDRS # <<>> THEN env.REDIS_ADDRS
          ELSE IF env.REDIS_ADDR # <<>> THEN env.REDIS_ADDR ELSE DefaultAddress)

\* the addresses initRedisShardManager hands to NewRedisShardManager
ParseAddresses(env) ==
    LET redisAddr     == IF env.REDIS_ADDR = <<>> THEN DefaultAddress ELSE env.REDIS_ADDR
        redisAddrsEnv == IF env.REDIS_ADDRS = <<>> THEN redisAddr ELSE env.REDIS_ADDRS
        addresses     == Entries(Split(redisAddrsEnv))
    IN  IF addresses = <<>> THEN <<DefaultAddress>> ELSE addresses

NoEnv == [REDIS_ADDRS |-> <<>>, REDIS_ADDR |-> <<>>]

\* an environment that names n shards
EnvOf(n) == [REDIS_ADDRS |-> IF n = 1 THEN <<"g">> ELSE <<"g">> \o [i \in 1..(2 * (n - 1)) |->
                                 IF i % 2 = 1 THEN "," ELSE "h"],
             REDIS_ADDR |-> <<>>]

\* the limiters that share the shard manager: the one of main() and a second one
Limiters == {1, 2}

NoLimiter == [rate |-> 0, capacity |-> 0]

\* rl.rate and rl.capacity of limiter l
Limits(l) == IF l = 1 THEN [rate |-> rate, capacity |-> capacity] ELSE boot.second

\* every caller reads the same clock
NoSkew == [p \in Callers |-> 0]

\* a client that gets its answer only while every shard answers
ShardNeedsAll(sh) == \A t \in 0..(shardCount - 1) : up[t]

\* the client of shard sh gets the answer of shard sh
ShardAnswers(sh) == up[sh]

\* a client that waits for its answer without limit
NeverCutOff(sh, kind) == FALSE

\* ReadTimeout: 3 * time.Second: the client gives up an answer that does not come
CutOff(sh, kind) == hung[sh] /\ kind = "timeout"

InFlight == {q \in Callers : pc[q] \in {"sent", "script"}}

BeingServed(id) == \E q \in Callers : pc[q] = "script" /\ req[q].userID = id

\* main(): NewRateLimiter(shardManager, rate, capacity) over a connected topology;
\* no key exists and no request is being served
StartedOn(second, skew, buckets) ==
    /\ rate \in 1..MaxRate
    /\ capacity \in {c * Unit : c \in 1..MaxCapacity}
    /\ intBits \in {32, 64}
    /\ shardCount \in 1..MaxShards
    /\ boot = [manager |-> "built", given |-> shardCount, limiter |-> TRUE, saturates |-> FALSE,
               second |-> second, skew |-> skew, env |-> EnvOf(shardCount),
               list |-> ParseAddresses(EnvOf(shardCount)),
               pinged |-> [i \in 1..shardCount |-> TRUE],
               shards |-> ParseAddresses(EnvOf(shardCount))]
    /\ clock = 0
    /\ store = buckets
    /\ serial = buckets
    /\ up = [sh \in Shards |-> TRUE]
    /\ hung = [sh \in Shards |-> FALSE]
    /\ running = [sh \in Shards |-> 0]
    /\ pc = [p \in Callers |-> "idle"]
    /\ req = [p \in Callers |-> NoReq]
    /\ resp = [p \in Callers |-> NoResp]
    /\ calls = 0
    /\ linear = TRUE
    /\ grants = [id \in Identities |-> <<>>]
    /\ hist = [id \in Identities |-> [burst |-> TRUE, served |-> 0, granted |-> 0]]
    /\ mon = [id \in Identities |-> [ep |-> NoEpisode, last |-> NoLast]]
    /\ own = [bucket |-> [l \in Limiters |-> buckets], same |-> TRUE]
    /\ dbl = NoDouble

\* an empty store
NoBuckets == [sh \in Shards |-> [k \in Keys |-> Absent]]

\* the limiter right after its construction on an empty store
Started(second, skew) == StartedOn(second, skew, NoBuckets)

Init == Started(NoLimiter, NoSkew)

\* RateLimitMiddleware(l) and l.Allow up to script.Run: userID := c.IP(), GetClient, the
\* key, now := time.Now() on the caller's clock
BeginVia(p, id, l) ==
    /\ boot.limiter
    /\ pc[p] \in {"idle", "done"}
    /\ calls < MaxCalls
    /\ calls' = calls + 1
    /\ LET c == GetClient(id, shardCount, intBits)
       IN  IF c.ok
           THEN /\ pc' = [pc EXCEPT ![p] = "sent"]
                /\ req' = [req EXCEPT ![p] = [NoReq EXCEPT !.userID = id, !.via = l,
                                                           !.shard = c.shard,
                                                           !.now = clock + boot.skew[p]]]
                /\ resp' = [resp EXCEPT ![p] = NoResp]
           ELSE /\ pc' = [pc EXCEPT ![p] = "panicked"]
                /\ req' = [req EXCEPT ![p] = [NoReq EXCEPT !.userID = id, !.via = l,
                                                           !.shard = c.shard]]
                /\ resp' = [resp EXCEPT ![p] = [status |-> "panic"]]
    /\ hist' = IF id \in Identities
               THEN [hist EXCEPT ![id] = HistBegin(@, BeingServed(id))]
               ELSE hist
    /\ UNCHANGED <<boot, rate, capacity, intBits, shardCount, clock, store, up, hung, running,
                   serial, linear, grants, mon, own, dbl>>

\* a request through the limiter of main()
Begin(p, id) == BeginVia(p, id, 1)

\* a request through the second limiter
BeginSecond(p, id) == boot.second.capacity > 0 /\ BeginVia(p, id, 2)

\* the shard starts p's script: HMGET key tokens lastRefill
ScriptStart(p) ==
    /\ pc[p] = "sent"
    /\ ShardAnswers(req[p].shard)
    /\ ScriptMayStart(req[p].shard)
    /\ running' = [running EXCEPT ![req[p].shard] = p]
    /\ req' = [req EXCEPT ![p].read = store[req[p].shard][KeyOf(req[p].userID)],
                           ![p].at = clock]
    /\ pc' = [pc EXCEPT ![p] = "script"]
    /\ UNCHANGED <<boot, rate, capacity, intBits, shardCount, clock, store, up, hung, resp,
                   calls, serial, linear, grants, hist, mon, own, dbl>>

\* the rest of p's script (refill, consume, HMSET, EXPIRE, return), then Allow's parsing
\* of the reply and the middleware's answer
ScriptEnd(p) ==
    /\ pc[p] = "script"
    /\ LET sh  == req[p].shard
           id  == req[p].userID
           key == KeyOf(id)
           lim == Limits(req[p].via)
           r   == Script(req[p].read, lim.rate, lim.capacity, req[p].now, Requested)
           one == Script(serial[sh][key], lim.rate, lim.capacity, req[p].now, Requested)
           alone == Script(own.bucket[req[p].via][sh][key], lim.rate, lim.capacity, req[p].now,
                           Requested)
       IN  /\ store' = [store EXCEPT ![sh][key] = Written(r, clock)]
           /\ req' = [req EXCEPT ![p].wrote = Written(r, clock), ![p].reply = LuaReply(r),
                                  ![p].returned = Returned(AllowResult(LuaReply(r)))]
           /\ running' = [running EXCEPT ![sh] = 0]
           /\ resp' = [resp EXCEPT ![p] = Middleware(AllowResult(LuaReply(r)), lim.rate,
                                                     lim.capacity)]
           /\ serial' = [serial EXCEPT ![sh][key] = Written(one, clock)]
           /\ linear' = (linear /\ r = one)
           /\ own' = [bucket |-> [own.bucket EXCEPT ![req[p].via][sh][key] = Written(alone, clock)],
                      same |-> (own.same /\ r = alone)]
           /\ grants' = [grants EXCEPT ![id] = IF r.allowed = 1 THEN InsertSorted(@, req[p].now)
                                                ELSE @]
           /\ hist' = [hist EXCEPT ![id] = HistServed(@, r.allowed)]
           /\ mon' = [mon EXCEPT ![id] = MonStep(@, req[p].now, r)]
    /\ pc' = [pc EXCEPT ![p] = "done"]
    /\ UNCHANGED <<boot, rate, capacity, intBits, shardCount, clock, up, hung, calls, dbl>>

\* script.Run fails: the shard does not answer, answers too late, or reports an error
ScriptError(p, kind) ==
    /\ pc[p] = "sent"
    /\ \/ ~ShardAnswers(req[p].shard) /\ ~hung[req[p].shard]
       \/ CutOff(req[p].shard, kind)
    /\ resp' = [resp EXCEPT ![p] = Middleware(AllowResult([kind |-> kind]),
                                              Limits(req[p].via).rate,
                                              Limits(req[p].via).capacity)]
    /\ req' = [req EXCEPT ![p].reply = ReplyClass([kind |-> kind]),
                           ![p].returned = Returned(AllowResult([kind |-> kind]))]
    /\ pc' = [pc EXCEPT ![p] = "done"]
    /\ UNCHANGED <<boot, rate, capacity, intBits, shardCount, clock, store, up, hung, running,
                   calls, serial, linear, grants, hist, mon, own, dbl>>

\* script.Run returns a reply that the script does not produce
BadReply(p, reply) ==
    /\ pc[p] = "sent"
    /\ ~ShardAnswers(req[p].shard)
    /\ ~hung[req[p].shard]
    /\ resp' = [resp EXCEPT ![p] = Middleware(AllowResult(reply), Limits(req[p].via).rate,
                                              Limits(req[p].via).capacity)]
    /\ req' = [req EXCEPT ![p].reply = ReplyClass(reply),
                           ![p].returned = Returned(AllowResult(reply))]
    /\ pc' = [pc EXCEPT ![p] = "done"]
    /\ UNCHANGED <<boot, rate, capacity, intBits, shardCount, clock, store, up, hung, running,
                   calls, serial, linear, grants, hist, mon, own, dbl>>

\* a shard stops answering as it should
Fail(sh) ==
    /\ sh < shardCount
    /\ running[sh] = 0
    /\ up[sh]
    /\ up' = [up EXCEPT ![sh] = FALSE]
    /\ UNCHANGED <<boot, rate, capacity, intBits, shardCount, clock, store, hung, running, pc,
                   req, resp, calls, serial, linear, grants, hist, mon, own, dbl>>

\* a shard goes on taking requests and stops answering them
Hang(sh) ==
    /\ sh < shardCount
    /\ running[sh] = 0
    /\ up[sh]
    /\ up' = [up EXCEPT ![sh] = FALSE]
    /\ hung' = [hung EXCEPT ![sh] = TRUE]
    /\ UNCHANGED <<boot, rate, capacity, intBits, shardCount, clock, store, running, pc, req,
                   resp, calls, serial, linear, grants, hist, mon, own, dbl>>

\* a shard answers again
Recover(sh) ==
    /\ ~up[sh]
    /\ up' = [up EXCEPT ![sh] = TRUE]
    /\ hung' = [hung EXCEPT ![sh] = FALSE]
    /\ UNCHANGED <<boot, rate, capacity, intBits, shardCount, clock, store, running, pc, req,
                   resp, calls, serial, linear, grants, hist, mon, own, dbl>>

\* d seconds pass; keys whose time to live has run out disappear.  A request is not in
\* flight for an idle period: the clients' ReadTimeout is 3 seconds.
Advance(d) ==
    /\ \A sh \in Shards : running[sh] = 0
    /\ d > MaxTicks => InFlight = {}
    /\ (clock + d) % ExpireSeconds <= MaxTicks
    /\ (clock + d) \div ExpireSeconds <= MaxIdle
    /\ clock' = clock + d
    /\ store' = [sh \in Shards |-> [k \in Keys |-> Purge(store[sh][k], clock + d)]]
    /\ serial' = [sh \in Shards |-> [k \in Keys |-> Purge(serial[sh][k], clock + d)]]
    /\ own' = [own EXCEPT !.bucket = [l \in Limiters |-> [sh \in Shards |-> [k \in Keys |->
                                          Purge(own.bucket[l][sh][k], clock + d)]]]]
    /\ UNCHANGED <<boot, rate, capacity, intBits, shardCount, up, hung, running, pc, req, resp,
                   calls, linear, grants, hist, mon, dbl>>

\* another client of the store overwrites a field of the hash with a value that is no
\* number
Spoil(b, field) == IF b.present THEN [b EXCEPT !.bad = @ \cup {field}] ELSE b

Corrupt(sh, k, field) ==
    /\ running[sh] = 0
    /\ store[sh][k].present
    /\ field \notin store[sh][k].bad
    /\ store' = [store EXCEPT ![sh][k] = Spoil(@, field)]
    /\ serial' = [serial EXCEPT ![sh][k] = Spoil(@, field)]
    /\ own' = [own EXCEPT !.bucket = [l \in Limiters |-> [@[l] EXCEPT ![sh][k] = Spoil(@, field)]]]
    /\ UNCHANGED <<boot, rate, capacity, intBits, shardCount, clock, up, hung, running, pc, req,
                   resp, calls, linear, grants, hist, mon, dbl>>

\* another client of the store deletes the key: client.Del(ctx, key)
Delete(sh, k) ==
    /\ running[sh] = 0
    /\ store[sh][k].present
    /\ store' = [store EXCEPT ![sh][k] = Absent]
    /\ serial' = [serial EXCEPT ![sh][k] = Absent]
    /\ own' = [own EXCEPT !.bucket = [l \in Limiters |-> [@[l] EXCEPT ![sh][k] = Absent]]]
    /\ UNCHANGED <<boot, rate, capacity, intBits, shardCount, clock, up, hung, running, pc, req,
                   resp, calls, linear, grants, hist, mon, dbl>>

\* the addresses given to NewRedisShardManager, each one by whether its Ping succeeds
AddressLists == SeqsUpTo(BOOLEAN, MaxShards)

\* a constructor that lets an empty list through
ManagerAcceptsEmpty(addresses) ==
    IF \E i \in 1..Len(addresses) : ~addresses[i] THEN [err |-> TRUE, shards |-> 0]
    ELSE [err |-> FALSE, shards |-> Len(addresses)]

\* a constructor that keeps the clients of the addresses that answered
ShardsAnswering(addresses, pings) ==
    LET good == {i \in 1..Len(addresses) : pings[i]}
    IN  [j \in 1..Cardinality(good) |->
            addresses[CHOOSE i \in good : Cardinality({k \in good : k < i}) = j - 1]]

\* a constructor that fills its slice from the end
ShardsReversed(addresses, pings) ==
    IF Len(addresses) = 0 \/ \E i \in 1..Len(addresses) : ~pings[i] THEN <<>>
    ELSE [i \in 1..Len(addresses) |-> addresses[Len(addresses) + 1 - i]]

\* the addresses of the clients in the shards slice of the manager that
\* NewRedisShardManager returns (shards[i] = client of addresses[i]); none on an error
ShardsOf(addresses, pings) ==
    IF Len(addresses) = 0 \/ \E i \in 1..Len(addresses) : ~pings[i] THEN <<>>
    ELSE addresses

\* n addresses to hand to the constructor
AddressNames(n) == IF n = 0 THEN <<>> ELSE ParseAddresses(EnvOf(n))

\* NewRedisShardManager(addresses): the number of shards of the manager it returns, or
\* the error
ManagerResult(addresses) ==
    IF Len(addresses) = 0 THEN [err |-> TRUE, shards |-> 0]
    ELSE IF \E i \in 1..Len(addresses) : ~addresses[i] THEN [err |-> TRUE, shards |-> 0]
    ELSE [err |-> FALSE, shards |-> Len(addresses)]

\* the start of the process in an environment of envs: nothing is constructed
Unstarted(envs) ==
    /\ boot \in [manager : {"none"}, given : {0 - 1}, limiter : {FALSE}, saturates : BOOLEAN,
                 second : {NoLimiter}, skew : {NoSkew}, env : envs, list : {<<>>},
                 pinged : {<<>>}, shards : {<<>>}]
    /\ rate = 0
    /\ capacity = 0
    /\ intBits \in {32, 64}
    /\ shardCount = 0
    /\ clock = 0
    /\ store = [sh \in Shards |-> [k \in Keys |-> Absent]]
    /\ serial = [sh \in Shards |-> [k \in Keys |-> Absent]]
    /\ up = [sh \in Shards |-> TRUE]
    /\ hung = [sh \in Shards |-> FALSE]
    /\ running = [sh \in Shards |-> 0]
    /\ pc = [p \in Callers |-> "idle"]
    /\ req = [p \in Callers |-> NoReq]
    /\ resp = [p \in Callers |-> NoResp]
    /\ calls = 0
    /\ linear = TRUE
    /\ grants = [id \in Identities |-> <<>>]
    /\ hist = [id \in Identities |-> [burst |-> TRUE, served |-> 0, granted |-> 0]]
    /\ mon = [id \in Identities |-> [ep |-> NoEpisode, last |-> NoLast]]
    /\ own = [bucket |-> [l \in Limiters |-> [sh \in Shards |-> [k \in Keys |-> Absent]]],
              same |-> TRUE]
    /\ dbl = NoDouble

InitBoot == Unstarted({NoEnv})

\* initRedisShardManager(): the addresses of the environment go to NewRedisShardManager,
\* whose Pings succeed or fail as pings says; an error is a panic
InitRedisShardManager(pings) ==
    /\ boot.manager = "none"
    /\ LET addresses == ParseAddresses(boot.env)
           m         == ManagerResult(pings)
       IN  /\ Len(pings) = Len(addresses)
           /\ boot' = [boot EXCEPT !.manager = IF m.err THEN "failed" ELSE "built",
                                    !.given = Len(addresses), !.list = addresses,
                                    !.pinged = pings, !.shards = ShardsOf(addresses, pings)]
           /\ shardCount' = m.shards
    /\ UNCHANGED <<rate, capacity, intBits, clock, store, up, hung, running, pc, req, resp,
                   calls, serial, linear, grants, hist, mon, own, dbl>>

\* NewRedisShardManager(addresses); on an error the caller has no manager
\* (initRedisShardManager panics)
NewRedisShardManager(addresses) ==
    /\ boot.manager = "none"
    /\ LET m == ManagerResult(addresses)
       IN  /\ boot' = [boot EXCEPT !.manager = IF m.err THEN "failed" ELSE "built",
                                    !.given = Len(addresses),
                                    !.list = AddressNames(Len(addresses)),
                                    !.pinged = addresses,
                                    !.shards = ShardsOf(AddressNames(Len(addresses)),
                                                        addresses)]
           /\ shardCount' = m.shards
    /\ UNCHANGED <<rate, capacity, intBits, clock, store, up, hung, running, pc, req, resp,
                   calls, serial, linear, grants, hist, mon, own, dbl>>

\* NewRateLimiter(manager, rate, capacity)
NewRateLimiter(r, c) ==
    /\ boot.manager = "built"
    /\ ~boot.limiter
    /\ boot' = [boot EXCEPT !.limiter = TRUE]
    /\ rate' = r
    /\ capacity' = c
    /\ UNCHANGED <<intBits, shardCount, clock, store, up, hung, running, pc, req, resp, calls,
                   serial, linear, grants, hist, mon, own, dbl>>

\* the requests, the scripts and the clock, with every shard answering
Next ==
    \/ \E p \in Callers, id \in Identities : Begin(p, id)
    \/ \E p \in Callers : ScriptStart(p)
    \/ \E p \in Callers : ScriptEnd(p)
    \/ \E d \in {1, ExpireSeconds} : Advance(d)

Spec == Init /\ [][Next]_vars

\* the same with shards that fail and recover, for one configuration of the limiter
\* in a 64-bit build
InitFaults ==
    Init /\ rate = MaxRate /\ capacity = Unit /\ shardCount = MaxShards /\ intBits = 64

NextFaults ==
    \/ \E p \in Callers, id \in Identities : Begin(p, id)
    \/ \E p \in Callers : ScriptStart(p)
    \/ \E p \in Callers : ScriptEnd(p)
    \/ \E p \in Callers, kind \in ErrKinds : ScriptError(p, kind)
    \/ \E p \in Callers, reply \in [kind : BadShapes] \cup OddReplies : BadReply(p, reply)
    \/ \E sh \in Shards : Fail(sh)
    \/ \E sh \in Shards : Recover(sh)
    \/ \E d \in {1, ExpireSeconds} : Advance(d)

SpecFaults == InitFaults /\ [][NextFaults]_vars

\* the same with another client of the store that deletes keys and overwrites fields,
\* for one configuration of the limiter
InitStore ==
    Init /\ rate = MaxRate /\ capacity = MaxCapacity * Unit /\ shardCount = 1 /\ intBits = 64

NextStore ==
    \/ \E p \in Callers, id \in Identities : Begin(p, id)
    \/ \E p \in Callers : ScriptStart(p)
    \/ \E p \in Callers : ScriptEnd(p)
    \/ \E sh \in Shards, k \in Keys, field \in {"tokens", "lastRefill"} : Corrupt(sh, k, field)
    \/ \E sh \in Shards, k \in Keys : Delete(sh, k)
    \/ \E d \in {ExpireSeconds} : Advance(d)

SpecStore == InitStore /\ [][NextStore]_vars

\* the process from its start: the constructions with any arguments, then the requests
NextBoot ==
    \/ \E addresses \in AddressLists : NewRedisShardManager(addresses)
    \/ \E r \in 0..MaxRate, c \in 0..MaxCapacity : NewRateLimiter(r, c * Unit)
    \/ \E p \in Callers, id \in Identities : Begin(p, id)
    \/ \E p \in Callers : ScriptStart(p)
    \/ \E p \in Callers : ScriptEnd(p)
    \/ \E d \in {1} : Advance(d)

SpecBoot == InitBoot /\ [][NextBoot]_vars

\* two limiters of different rate and capacity over one shard manager:
\* NewRateLimiter(manager, ...) twice, each behind its own middleware
InitTwo ==
    /\ Started([rate |-> 1, capacity |-> Unit], NoSkew)
    /\ rate = MaxRate /\ capacity = MaxCapacity * Unit /\ shardCount = 1 /\ intBits = 64

NextTwo ==
    \/ \E p \in Callers, id \in Identities : Begin(p, id)
    \/ \E p \in Callers, id \in Identities : BeginSecond(p, id)
    \/ \E p \in Callers : ScriptStart(p)
    \/ \E p \in Callers : ScriptEnd(p)
    \/ \E d \in {1} : Advance(d)

SpecTwo == InitTwo /\ [][NextTwo]_vars

\* the limiter with a shard that stops answering and answers again, for one configuration
\* in a 64-bit build; no time passes between the requests
InitLive ==
    Init /\ rate = MaxRate /\ capacity = Unit /\ shardCount = 1 /\ intBits = 64

NextLive ==
    \/ \E p \in Callers, id \in Identities : Begin(p, id)
    \/ \E p \in Callers : ScriptStart(p)
    \/ \E p \in Callers : ScriptEnd(p)
    \/ \E p \in Callers, kind \in ErrKinds : ScriptError(p, kind)
    \/ \E sh \in Shards : Hang(sh)
    \/ \E sh \in Shards : Recover(sh)

\* script.Run returns: the script was started, or the client reports an error
Returns(p) == ScriptStart(p) \/ \E kind \in ErrKinds : ScriptError(p, kind)

\* a script that was started ends, and the client's read returns when it can: with the
\* answer, with the store's error, or when its ReadTimeout has run out
SpecLive ==
    /\ InitLive
    /\ [][NextLive]_vars
    /\ \A p \in Callers : WF_vars(ScriptEnd(p)) /\ WF_vars(Returns(p))

\* caller 2's clock is s seconds ahead of caller 1's
SkewOf(s) == [p \in Callers |-> IF p = 1 THEN 0 ELSE s]

\* a bucket that a limiter of this capacity has written at the store's time 0
Buckets ==
    {Absent} \cup
    {[present |-> TRUE, tokens |-> t, lastRefill |-> l, bad |-> {},
      expireAt |-> ExpireSeconds] : t \in 0..(MaxCapacity * Unit), l \in 0..(MaxSkew + 1)}

\* the script on every stored bucket and every now: the limiter of a 64-bit build on one
\* shard finds any bucket under the first identity's key, and its callers' clocks differ;
\* no time passes
InitScript ==
    /\ \E b \in Buckets, s \in 0..MaxSkew :
           StartedOn(NoLimiter, SkewOf(s), [NoBuckets EXCEPT ![0][KeyOf(<<49>>)] = b])
    /\ capacity = MaxCapacity * Unit
    /\ shardCount = 1
    /\ intBits = 64

NextScript ==
    \/ \E p \in Callers, id \in Identities : Begin(p, id)
    \/ \E p \in Callers : ScriptStart(p)
    \/ \E p \in Callers : ScriptEnd(p)

SpecScript == InitScript /\ [][NextScript]_vars

\* the bucket that caller 1 has drained at its time 0, which is the store's time 0
Drained == [present |-> TRUE, tokens |-> 0, lastRefill |-> 0, bad |-> {},
            expireAt |-> ExpireSeconds]

\* two callers whose clocks differ by a fixed skew of 1..MaxSkew seconds, on one shard in
\* a 64-bit build; the first identity's bucket has just been drained
InitSkew ==
    /\ \E s \in 1..MaxSkew :
           StartedOn(NoLimiter, SkewOf(s), [NoBuckets EXCEPT ![0][KeyOf(<<49>>)] = Drained])
    /\ capacity = MaxCapacity * Unit
    /\ shardCount = 1
    /\ intBits = 64

NextSkew ==
    \/ \E p \in Callers, id \in Identities : Begin(p, id)
    \/ \E p \in Callers : ScriptStart(p)
    \/ \E p \in Callers : ScriptEnd(p)
    \/ \E d \in {1} : Advance(d)

SpecSkew == InitSkew /\ [][NextSkew]_vars

\* NewRateLimiter(manager, r, cap) with float64 arguments: the calls of one identity are
\* followed from the construction on
FloatLimiter(r, cap) ==
    /\ ~dbl.on
    /\ dbl' = [NoDouble EXCEPT !.on = TRUE, !.rate = r, !.capacity = cap]
    /\ UNCHANGED <<boot, rate, capacity, intBits, shardCount, clock, store, up, hung, running,
                   pc, req, resp, calls, serial, linear, grants, hist, mon, own>>

\* one Allow of the identity at the second t, at most one in a second.  The same script
\* runs on the bucket that the calls left, and on the bucket that the same calls without
\* the denied ones left; a denied call is not made on the latter.
FloatAllow ==
    /\ dbl.on
    /\ dbl.polled.present => dbl.polled.lastRefill < dbl.t
    /\ \E p \in {ScriptFloat(dbl.polled, dbl.rate, dbl.capacity, dbl.t)},
          q \in {ScriptFloat(dbl.quiet, dbl.rate, dbl.capacity, dbl.t)} :
           dbl' = [dbl EXCEPT
                      !.polled  = FloatWritten(p),
                      !.quiet   = IF p.allowed = 1 THEN FloatWritten(q) ELSE @,
                      !.agreed  = @ /\ p.allowed = q.allowed,
                      !.skipped = IF p.allowed = 1 THEN 0 ELSE @ + 1,
                      !.last    = [made |-> TRUE, agreed |-> dbl.agreed,
                                   skipped |-> dbl.skipped,
                                   polled |-> [allowed |-> p.allowed, level |-> p.level],
                                   quiet |-> [allowed |-> q.allowed, level |-> q.level]]]
    /\ UNCHANGED <<boot, rate, capacity, intBits, shardCount, clock, store, up, hung, running,
                   pc, req, resp, calls, serial, linear, grants, hist, mon, own>>

\* a second passes
FloatTick ==
    /\ dbl.on
    /\ dbl.t < MaxSeconds
    /\ dbl' = [dbl EXCEPT !.t = @ + 1]
    /\ UNCHANGED <<boot, rate, capacity, intBits, shardCount, clock, store, up, hung, running,
                   pc, req, resp, calls, serial, linear, grants, hist, mon, own>>

\* the bucket b a second later on a clock that stays at MaxSeconds; a bucket that is
\* older than MaxSeconds counts as MaxSeconds old, which credits it no more than its age
Aged(b) == IF b.present /\ b.lastRefill > 0 THEN [b EXCEPT !.lastRefill = @ - 1] ELSE b

\* a second passes after MaxSeconds: the seconds are counted from one second later
FloatSlide ==
    /\ dbl.on
    /\ dbl.t = MaxSeconds
    /\ dbl.polled.present /\ dbl.polled.lastRefill > 0
    /\ dbl' = [dbl EXCEPT !.polled = Aged(@)]
    /\ UNCHANGED <<boot, rate, capacity, intBits, shardCount, clock, store, up, hung, running,
                   pc, req, resp, calls, serial, linear, grants, hist, mon, own>>

\* the script's arithmetic alone, for one caller with a clock that never goes back
InitFloat ==
    Init /\ rate = MaxRate /\ capacity = Unit /\ shardCount = 1 /\ intBits = 64

NextFloat ==
    \/ \E r \in FloatRates, cap \in FloatCapacities : FloatLimiter(r, cap)
    \/ FloatAllow
    \/ FloatTick

SpecFloat == InitFloat /\ [][NextFloat]_vars

\* one Allow of the identity at the second t, at most one in a second, on the bucket that
\* the calls left; the denials in a row are counted up to MaxSeconds
FloatRetry ==
    /\ dbl.on
    /\ dbl.polled.present => dbl.polled.lastRefill < dbl.t
    /\ \E p \in {ScriptFloat(dbl.polled, dbl.rate, dbl.capacity, dbl.t)} :
           dbl' = [dbl EXCEPT
                      !.polled  = FloatWritten(p),
                      !.skipped = IF p.allowed = 1 THEN 0
                                  ELSE IF @ < MaxSeconds THEN @ + 1 ELSE @,
                      !.last    = [NoFloatCall EXCEPT
                                      !.made = TRUE,
                                      !.skipped = dbl.skipped,
                                      !.polled = [allowed |-> p.allowed, level |-> p.level]]]
    /\ UNCHANGED <<boot, rate, capacity, intBits, shardCount, clock, store, up, hung, running,
                   pc, req, resp, calls, serial, linear, grants, hist, mon, own>>

\* the rates 1/2, 1/4 and 1/8 of a token per second: their multiples are float64 values,
\* so that the levels of a bucket that is followed without an end are finitely many
RetryRates == {[hi |-> 2^15, mid |-> 0, lo |-> 0], [hi |-> 2^14, mid |-> 0, lo |-> 0],
               [hi |-> 2^13, mid |-> 0, lo |-> 0]}

\* the calls of one identity without an end of time
NextRetry ==
    \/ \E r \in RetryRates, cap \in FloatCapacities : FloatLimiter(r, cap)
    \/ FloatRetry
    \/ FloatTick
    \/ FloatSlide

\* the clock keeps advancing and the caller keeps retrying: each of them takes its step
\* when it can, in any proportion
SpecRetry ==
    /\ InitFloat
    /\ [][NextRetry]_vars
    /\ WF_vars(FloatRetry)
    /\ WF_vars(FloatTick \/ FloatSlide)

\* the start of main() in every environment
InitConfig == Unstarted([REDIS_ADDRS : EnvValues, REDIS_ADDR : EnvValues])

NextConfig == \E pings \in AddressLists : InitRedisShardManager(pings)

SpecConfig == InitConfig /\ [][NextConfig]_vars

\* the router alone: every request goroutine asks for the shard of one identity
RouterNext == \E p \in Callers, id \in RouterIdentities : Begin(p, id)

SpecRouter == Init /\ [][RouterNext]_vars

\* ------------------------------------------------------------------ claims

Served(p) == pc[p] = "done" /\ req[p].wrote.present

Failed(p) == pc[p] = "done" /\ req[p].reply.kind \in {"error", "malformed"}

FloorTokens(x) == (x \div Unit) * Unit

\* C1: when the calls of an identity's first burst (calls that all began before any of
\* them was served, on a bucket that starts full) are all served and are at least as many
\* as the capacity, exactly capacity of them were allowed, whatever the timestamps of the
\* calls and the order in which the store ran them.
C1_ExactlyCapacity ==
    \A id \in Identities :
        (/\ hist[id].burst
         /\ \A p \in InFlight : req[p].userID # id
         /\ hist[id].served * Unit >= capacity)
        => hist[id].granted * Unit = capacity

\* C2: no stored token count is negative, and for every identity the calls allowed with
\* timestamps in any interval [t, t + dt] number at most capacity + rate * dt.
C2_RateBound ==
    /\ \A sh \in Shards, k \in Keys : store[sh][k].present => store[sh][k].tokens >= 0
    /\ \A id \in Identities :
           \A i, j \in 1..Len(grants[id]) :
               i <= j => (j - i + 1) * Unit <= capacity + rate * (grants[id][j] - grants[id][i])

\* C3: every stored token count lies between 0 and the capacity, in the store and in
\* what each script wrote.
C3_TokensInRange ==
    /\ \A sh \in Shards, k \in Keys :
           store[sh][k].present => 0 <= store[sh][k].tokens /\ store[sh][k].tokens <= capacity
    /\ \A p \in Callers :
           req[p].wrote.present => 0 <= req[p].wrote.tokens /\ req[p].wrote.tokens <= capacity

\* a script refilled a drained bucket up to the cap and consumed from it
C3_Witness ==
    \E p \in Callers :
        /\ Served(p)
        /\ req[p].read.present
        /\ req[p].now > req[p].read.lastRefill
        /\ req[p].read.tokens + (req[p].now - req[p].read.lastRefill) * rate > capacity
        /\ req[p].wrote.tokens = capacity - Unit

\* C4: the scripts are indivisible per key: at most one request is inside a script on a
\* shard, the bucket it read is still the stored one when it writes, and the decisions
\* and the buckets equal those of the scripts applied one after another in the order the
\* store ran them.
C4_AtomicTransition ==
    /\ linear
    /\ store = serial
    /\ \A sh \in Shards : Cardinality({p \in Callers : pc[p] = "script" /\ req[p].shard = sh}) <= 1
    /\ \A p \in Callers :
           pc[p] = "script" => req[p].read = store[req[p].shard][KeyOf(req[p].userID)]

\* a request waits for the key while another request's script is reading it, after an
\* earlier script has written it
C4_Witness ==
    \E p, q \in Callers :
        /\ p # q
        /\ pc[p] = "script"
        /\ pc[q] = "sent"
        /\ req[p].userID = req[q].userID
        /\ req[p].read.present

C6_ClockSkew ==
    \A p \in Callers :
        (Served(p) /\ req[p].read.present /\ req[p].now < req[p].read.lastRefill)
        => /\ req[p].wrote.tokens = req[p].read.tokens - req[p].reply.allowed * Unit
           /\ req[p].reply.allowed = 1 <=> req[p].read.tokens >= Unit
           /\ req[p].reply.kind = "ok"
           /\ resp[p].status \in {"next", "429"}
           /\ resp[p].degraded = 0

\* a script ran with a timestamp earlier than the stored one, on a bucket that is not full
C6_Witness ==
    \E p \in Callers :
        /\ Served(p)
        /\ req[p].read.present
        /\ req[p].now < req[p].read.lastRefill
        /\ req[p].read.tokens < capacity

\* C7: a request whose transition failed (script.Run returned an error, or the reply could
\* not be parsed) is passed to the protected handler: it is not answered 429 and the
\* error is not raised.
C7_FailOpen ==
    \A p \in Callers : Failed(p) => resp[p].status = "next"

\* requests failed with a store error and with an unparseable reply
C7_Witness ==
    /\ \E p \in Callers : Failed(p) /\ req[p].reply.kind = "error"
    /\ \E p \in Callers : Failed(p) /\ req[p].reply.kind = "malformed"

\* C8: every request whose transition failed produced exactly one degraded-mode
\* notification.
C8_OneNotification ==
    \A p \in Callers : Failed(p) => resp[p].degraded = 1

\* C9: every request is routed to the shard at index FNV-1a-32(identity) mod N.
C9_RoutesByHashMod ==
    \A p \in Callers :
        pc[p] # "idle" =>
            /\ pc[p] = "sent"
            /\ req[p].shard = HashMod(Fnv32a(req[p].userID), shardCount)

\* C10: the shard index computed for a request lies in 0..N-1, so that no request
\* panics, and is 0 when N = 1.
C10_IndexInRange ==
    \A p \in Callers :
        pc[p] # "idle" =>
            /\ pc[p] # "panicked"
            /\ 0 <= req[p].shard /\ req[p].shard < shardCount
            /\ shardCount = 1 => req[p].shard = 0

\* C11: NewRedisShardManager with an empty address list returns an error and no manager;
\* every manager that was constructed has at least one shard, and so has the manager of
\* every request that selected a shard.
C11_EmptyListRejected ==
    /\ boot.given = 0 => boot.manager = "failed" /\ shardCount = 0
    /\ boot.manager = "built" => shardCount >= 1
    /\ \A p \in Callers : pc[p] # "idle" => boot.manager = "built" /\ shardCount >= 1

\* the constructor was called with the empty list
C11_Witness == boot.given = 0 /\ boot.manager = "failed"

\* C12: every limiter that was constructed, and so every request that was decided and
\* every retry delay that was computed, has a positive rate and a positive capacity.
C12_InvalidConfigRejected ==
    /\ boot.limiter => rate > 0 /\ capacity > 0
    /\ \A p \in Callers : pc[p] = "done" => rate > 0 /\ capacity > 0

\* C13: a request whose script read a stored record with a field that is no number ends
\* with an error: it gets no decision from that record and the record is not replaced.
C13_MalformedStateIsError ==
    \A p \in Callers :
        (pc[p] = "done" /\ req[p].read.present /\ req[p].read.bad # {})
        => Failed(p) /\ ~req[p].wrote.present

\* C14: a request whose reply is outside the documented shape (not an array of exactly
\* two elements with allowed in {0, 1} and a token count) gets Allow's error and is
\* handled as a store failure: passed on by fail-open, never allowed or denied by the
\* reply.
C14_MalformedResultIsError ==
    \A p \in Callers :
        (/\ pc[p] = "done"
         /\ \/ req[p].reply.kind = "malformed"
            \/ req[p].reply.kind = "odd" /\ ~req[p].reply.inShape)
        => resp[p].status = "next" /\ resp[p].degraded >= 1

HasHeader(p, name) == \E h \in resp[p].headers : h[1] = name

\* the value of a header of the answer to p's request
Header(p, name) == (CHOOSE h \in resp[p].headers : h[1] = name)[2]

\* the smallest whole number of seconds that is at least a / b
CeilDiv(a, b) == (a + b - 1) \div b

\* C15: every denied request reports the retry delay
\* max(1, ceil((requested - remaining) / rate)) seconds, remaining being the remaining
\* tokens of its decision, and the delay is positive.
C15_RetryDelay ==
    \A p \in Callers :
        (Served(p) /\ resp[p].status = "429")
        => /\ HasHeader(p, "X-RateLimit-Retry-After")
           /\ LET d      == Header(p, "X-RateLimit-Retry-After")
                  needed == Requested - req[p].reply.tokens
              IN  /\ d >= 1
                  /\ d = (IF CeilDiv(needed, rate) > 1 THEN CeilDiv(needed, rate) ELSE 1)

\* C16: when a call of an identity is denied and the next call on its bucket comes the
\* reported number of seconds later or more (it reads the record that the denied call
\* wrote), that call is allowed.
C16_RetryDelaySuffices ==
    \A p, q \in Callers :
        (/\ Served(p) /\ resp[p].status = "429"
         /\ Served(q) /\ req[q].userID = req[p].userID
         /\ req[q].read = req[p].wrote
         /\ req[q].now >= req[p].now + Header(p, "X-RateLimit-Retry-After"))
        => req[q].reply.allowed = 1

\* C17: every request that went through the middleware, allowed, denied or passed on by
\* fail-open, carries X-RateLimit-Limit with the capacity and X-RateLimit-Remaining.
C17_HeadersAlways ==
    \A p \in Callers :
        pc[p] = "done"
        => /\ HasHeader(p, "X-RateLimit-Limit")
           /\ Header(p, "X-RateLimit-Limit") * Unit = capacity
           /\ HasHeader(p, "X-RateLimit-Remaining")

\* Allow returned a decision for p's request, and the decision is a denial
Denied(p) ==
    \/ req[p].reply.kind = "ok" /\ req[p].reply.allowed # 1
    \/ req[p].reply.kind = "odd" /\ req[p].reply.allowed # 1

\* Allow returned a decision for p's request, and the decision is an allow
Granted(p) == req[p].reply.kind \in {"ok", "odd"} /\ req[p].reply.allowed = 1

\* C18: a request is answered 429, with X-RateLimit-Retry-After and without reaching the
\* protected handler, exactly when Allow returned a decision with Allowed = false; a
\* request that was allowed reaches the handler and carries no X-RateLimit-Retry-After.
C18_DeniedIff429 ==
    \A p \in Callers :
        pc[p] = "done"
        => /\ resp[p].status = "429" <=> Denied(p)
           /\ HasHeader(p, "X-RateLimit-Retry-After") <=> Denied(p)
           /\ resp[p].status = "next" <=> ~Denied(p)
           /\ Granted(p) => resp[p].status = "next"

\* a request was denied by its script and another was allowed by its script
C18_Witness ==
    \E p, q \in Callers :
        /\ Served(p) /\ Denied(p) /\ resp[p].status = "429"
        /\ Served(q) /\ Granted(q) /\ resp[q].status = "next"

\* C19: every script that ran, whether it allowed or denied, left its key with an expiry
\* of ExpireSeconds from the time it ran; a key is gone only ExpireSeconds after the
\* last script that ran on it, and a call that finds its key gone is evaluated against a
\* full bucket.
C19_IdleExpiry ==
    /\ \A sh \in Shards, k \in Keys :
           store[sh][k].present
           => clock < store[sh][k].expireAt /\ store[sh][k].expireAt <= clock + ExpireSeconds
    /\ \A p \in Callers :
           Served(p)
           => /\ req[p].wrote.expireAt = req[p].at + ExpireSeconds
              /\ clock < req[p].wrote.expireAt
                 => /\ store[req[p].shard][KeyOf(req[p].userID)].present
                    /\ store[req[p].shard][KeyOf(req[p].userID)].expireAt >= req[p].wrote.expireAt
              /\ ~req[p].read.present
                 => req[p].reply.allowed = 1 /\ req[p].wrote.tokens = capacity - Requested

\* a call found its key expired: the identity had been served before, the call ran
\* ExpireSeconds or more after the start and read no record; and a denied call left a
\* key behind
C19_Witness ==
    /\ \E p \in Callers :
           /\ Served(p) /\ ~req[p].read.present /\ req[p].at >= ExpireSeconds
           /\ Len(grants[req[p].userID]) >= 2
    /\ \E q \in Callers :
           Served(q) /\ req[q].reply.allowed = 0 /\ clock < req[q].wrote.expireAt

\* C20: a call that finds no stored bucket for its identity (never seen, expired or
\* deleted) is allowed and writes tokens = capacity - 1 and lastRefill = its now.
C20_ImplicitCreation ==
    \A p \in Callers :
        (Served(p) /\ ~req[p].read.present)
        => /\ req[p].reply.allowed = 1
           /\ req[p].wrote.tokens = capacity - Requested
           /\ req[p].wrote.lastRefill = req[p].now

\* an identity was served, then a call found its key expired, and a further call in the
\* same second found no bucket again (the key was deleted between the two)
C20_Witness ==
    \E p, q \in Callers :
        /\ p # q /\ req[p].userID = req[q].userID
        /\ Served(p) /\ ~req[p].read.present /\ req[p].at >= ExpireSeconds
        /\ Served(q) /\ ~req[q].read.present /\ req[q].at = req[p].at
        /\ Len(grants[req[p].userID]) >= 3

\* C21: in every step, a request ends with a failure only if its own shard is failing,
\* and then no bucket changes; a request whose script ends gets the exact decision of
\* the script on its stored bucket, whatever the other shards do; and a shard's failure
\* or recovery changes no bucket.
C21_FaultIsolation ==
    [][/\ \A p \in Callers :
              /\ (pc[p] = "sent" /\ pc'[p] = "done")
                 => ~up[req[p].shard] /\ store' = store
              /\ (pc[p] = "script" /\ pc'[p] = "done")
                 => /\ req'[p].reply =
                           LuaReply(Script(store[req[p].shard][KeyOf(req[p].userID)],
                                           rate, capacity, req[p].now, Requested))
                    /\ resp'[p].status \in {"next", "429"}
                    /\ resp'[p].degraded = 0
       /\ up' # up => store' = store]_vars

\* a script runs on a shard for a stored bucket while another shard is failing
C21_Witness ==
    \E p \in Callers :
        /\ pc[p] = "script"
        /\ req[p].read.present
        /\ \E sh \in 0..(shardCount - 1) : sh # req[p].shard /\ ~up[sh]

\* C22: with two limiters over one shard manager, every call through a limiter reads the
\* bucket that this limiter's own calls left for the identity, and gets the decision
\* and the token count of that bucket: the calls through the other limiter neither
\* consume from it, nor refill it, nor cap it.
C22_LimitersApart ==
    /\ own.same
    /\ \A p \in Callers :
           pc[p] = "script"
           => req[p].read = own.bucket[req[p].via][req[p].shard][KeyOf(req[p].userID)]

\* the identities that are routed to the same shard with n shards and with m shards
Kept(n, m) ==
    {id \in RouterIdentities : ShardIndex(id, n, intBits) = ShardIndex(id, m, intBits)}

\* C23: when requests are routed over two or more shards and one shard is added (or the
\* added one is removed again), most identities keep the shard they had: more than half
\* of them are routed to the same index with N and with N + 1 shards.
C23_MinimalRehashing ==
    (shardCount >= 2 /\ \E p \in Callers : pc[p] # "idle")
    => 2 * Cardinality(Kept(shardCount, shardCount + 1)) > Cardinality(RouterIdentities)

\* the identities that the router gives to shard sh of n
RoutedTo(sh, n) == {id \in RouterIdentities : ShardIndex(id, n, intBits) = sh}

\* C26: when requests are routed, every identity is given to one of the N shards and each
\* shard is given close to 1/N of the identities: its share differs from 1/N by at most
\* a quarter of 1/N.
C26_UniformDistribution ==
    (\E p \in Callers : pc[p] # "idle")
    => /\ \A id \in RouterIdentities :
              \E sh \in 0..(shardCount - 1) : id \in RoutedTo(sh, shardCount)
       /\ \A sh \in 0..(shardCount - 1) :
              LET excess == shardCount * Cardinality(RoutedTo(sh, shardCount))
                                - Cardinality(RouterIdentities)
              IN  4 * excess <= Cardinality(RouterIdentities)
                      /\ 0 - 4 * excess <= Cardinality(RouterIdentities)

\* the places of the commas of s, and the two ends
Cuts(s) == {0, Len(s) + 1} \cup {i \in 1..Len(s) : s[i] = ","}

\* the entry of s that begins after the cut a, without the blanks around it
EntryAfter(s, a) ==
    LET b     == CHOOSE c \in Cuts(s) : c > a /\ \A d \in Cuts(s) : ~(a < d /\ d < c)
        solid == {i \in (a + 1)..(b - 1) : s[i] # " "}
    IN  IF solid = {} THEN <<>>
        ELSE SubSeq(s, CHOOSE i \in solid : \A k \in solid : i <= k,
                       CHOOSE i \in solid : \A k \in solid : i >= k)

\* the cuts of s after which an entry that is not empty begins
EntryCuts(s) == {a \in Cuts(s) \ {Len(s) + 1} : EntryAfter(s, a) # <<>>}

\* the entries of s that are not empty, in the order they have in s
EntriesOf(s) ==
    [i \in 1..Cardinality(EntryCuts(s)) |->
        EntryAfter(s, CHOOSE a \in EntryCuts(s) :
                          Cardinality({b \in EntryCuts(s) : b < a}) = i - 1)]

C25_AllowTerminates ==
    /\ \A p \in Callers : (pc[p] \in {"sent", "script"}) ~> (pc[p] = "done")
    /\ [](\A p \in Callers :
              (pc[p] = "done" /\ req[p].reply.kind = "error") => resp[p].status = "next")

\* C25 witness: a request was answered while its shard was not answering: the call
\* returned an error and the request went on.
C25_Witness ==
    \E p \in Callers :
        /\ pc[p] = "done"
        /\ hung[req[p].shard]
        /\ req[p].reply.kind = "error"
        /\ resp[p].status = "next"

\* the token count after the refill of a bucket as it was read, for a call at now
Refilled(read, now) ==
    IF ~read.present THEN capacity
    ELSE IF now > read.lastRefill
         THEN Min(capacity, read.tokens + (now - read.lastRefill) * rate)
         ELSE read.tokens

\* C27: every script that ends, whether it allows or denies, leaves in the store the
\* refilled token count (less the token it granted) and the call's now as lastRefill; a
\* denied call stores the refill it computed.
C27_PersistsAlways ==
    [][\A p \in Callers :
          (pc[p] = "script" /\ pc'[p] = "done")
          => LET b == store'[req[p].shard][KeyOf(req[p].userID)]
                 t == Refilled(req[p].read, req[p].now)
             IN  /\ b.present
                 /\ b.lastRefill = req[p].now
                 /\ b.tokens = IF req'[p].reply.allowed = 1 THEN t - Unit ELSE t
                 /\ req'[p].reply.allowed = 1 <=> t >= Unit]_vars

\* C27 witness: a denied call found a bucket, and left it with more tokens and a later
\* lastRefill than it had read.
C27_Witness ==
    \E p \in Callers :
        /\ Served(p)
        /\ req[p].reply.allowed = 0
        /\ req[p].read.present
        /\ store[req[p].shard][KeyOf(req[p].userID)] = req[p].wrote
        /\ req[p].wrote.tokens > req[p].read.tokens
        /\ req[p].wrote.lastRefill > req[p].read.lastRefill

\* steps 2 and 3 of the reference transition on the state (tokens, lastRefill) at now
ReferenceSteps(tokens, lastRefill, now) ==
    LET elapsed == now - lastRefill
        filled  == IF elapsed > 0
                   THEN (IF tokens + elapsed * rate < capacity THEN tokens + elapsed * rate
                         ELSE capacity)
                   ELSE tokens
    IN  IF filled >= Requested
        THEN [tokens |-> filled - Requested, allowed |-> TRUE]
        ELSE [tokens |-> filled, allowed |-> FALSE]

\* C28: for every stored state (tokens, lastRefill) and every now, the script's decision
\* and the token count it writes are those of the reference steps 2 and 3: a refill only
\* when now > lastRefill, to min(capacity, tokens + (now - lastRefill) * rate), an allow
\* exactly when the refilled tokens reach the requested 1, which is then subtracted.
C28_MatchesReference ==
    \A p \in Callers :
        (Served(p) /\ req[p].read.present)
        => LET ref == ReferenceSteps(req[p].read.tokens, req[p].read.lastRefill, req[p].now)
           IN  /\ req[p].wrote.tokens = ref.tokens
               /\ (req[p].reply.allowed = 1) = ref.allowed
               /\ req[p].reply.allowed \in {0, 1}
               /\ req[p].now <= req[p].read.lastRefill
                  => req[p].wrote.tokens + req[p].reply.allowed * Requested
                         = req[p].read.tokens

\* C28 witness: a call found a bucket whose refill was cut at the capacity, and another
\* found a bucket with a lastRefill later than its now and too few tokens, and was denied
\* without a refill.
C28_Witness ==
    /\ \E p \in Callers :
           /\ Served(p) /\ req[p].read.present
           /\ req[p].now > req[p].read.lastRefill
           /\ req[p].read.tokens + (req[p].now - req[p].read.lastRefill) * rate > capacity
           /\ req[p].wrote.tokens = capacity - Requested
    /\ \E p \in Callers :
           /\ Served(p) /\ req[p].read.present
           /\ req[p].now < req[p].read.lastRefill
           /\ req[p].reply.allowed = 0
           /\ req[p].wrote.tokens = req[p].read.tokens

\* C29: with callers whose clocks differ by a fixed skew s, the refill credited to a
\* bucket over the real time dt since it was drained (the tokens granted since then and
\* the tokens it holds) is at most rate * (dt + s), whatever the interleaving of the calls.
C29_SkewTolerated ==
    LET id == <<49>>
        b  == store[0][KeyOf(id)]
    IN  (b.present /\ ~BeingServed(id))
        => Len(grants[id]) * Unit + b.tokens <= rate * (clock + boot.skew[2] - boot.skew[1])

\* the bucket of identity id in the store s, when id has a shard
BucketOf(s, id) ==
    LET c == GetClient(id, shardCount, intBits)
    IN  IF c.ok THEN s[c.shard][KeyOf(id)] ELSE Absent

\* C30: a script that ends for one identity changes only that identity's bucket: every
\* other key of every shard, and so the tokens, lastRefill and expiry of every other
\* identity, stay as they were, as do the other identities' grants; and its decision is
\* the script's on its own identity's bucket, so the decisions for different identities
\* do not depend on the order in which their calls are served.
C30_OnlyOwnBucket ==
    [][\A p \in Callers :
          (pc[p] = "script" /\ pc'[p] = "done")
          => /\ \A sh \in Shards, k \in Keys :
                    (sh # req[p].shard \/ k # KeyOf(req[p].userID))
                    => store'[sh][k] = store[sh][k]
             /\ \A id \in Identities \ {req[p].userID} :
                    /\ BucketOf(store', id) = BucketOf(store, id)
                    /\ grants'[id] = grants[id]
             /\ req'[p].reply = LuaReply(Script(BucketOf(store, req[p].userID), rate,
                                                capacity, req[p].now, Requested))]_vars

\* C30 witness: a call was served and left its bucket on a shard that also holds another
\* identity's bucket, which differs from it.
C30_Witness ==
    \E p \in Callers, id \in Identities :
        /\ Served(p)
        /\ id # req[p].userID
        /\ GetClient(id, shardCount, intBits).ok
        /\ GetClient(id, shardCount, intBits).shard = req[p].shard
        /\ BucketOf(store, req[p].userID) = req[p].wrote
        /\ BucketOf(store, id).present
        /\ BucketOf(store, id) # req[p].wrote

\* C31: the remaining value that Allow returns for a served call is the token count that
\* the call's script wrote, fraction included.
C31_RemainingIsStored ==
    \A p \in Callers :
        Served(p)
        => /\ ~AllowResult(req[p].reply).err
           /\ AllowResult(req[p].reply).Remaining = req[p].wrote.tokens

\* the manager is there exactly when at least one address was given and every address
\* answered its ping, and then it holds one client per address in the given order
AllOrNothing ==
    /\ (boot.manager = "built")
       <=> (boot.given >= 1 /\ \A i \in 1..Len(boot.pinged) : boot.pinged[i])
    /\ (boot.manager = "built")
       => (/\ boot.shards = boot.list
           /\ Len(boot.shards) = boot.given
           /\ shardCount = Len(boot.shards))
    /\ (boot.manager = "failed") => (boot.shards = <<>> /\ shardCount = 0)

\* C32: the constructor succeeds exactly when it was given at least one address and every
\* address answered its ping, and then the manager holds one client per address in the
\* given order; otherwise there is an error and no manager; and no step after the
\* construction changes the shards of the manager.
C32_AllOrNothingThenFixed ==
    /\ []AllOrNothing
    /\ [][(boot.manager # "none")
          => (/\ boot'.manager = boot.manager
              /\ boot'.shards = boot.shards
              /\ shardCount' = shardCount)]_vars

\* C32 witness: a manager over two addresses that both answered has served a request, and
\* holds the two clients in the order of the addresses.
C32_Witness ==
    /\ boot.manager = "built"
    /\ Len(boot.list) = 2
    /\ boot.list[1] # boot.list[2]
    /\ boot.shards = boot.list
    /\ \E p \in Callers : Served(p)

\* 2^-40 of a token
Tolerance == [hi |-> 0, mid |-> 0, lo |-> 2^16]

\* x and y differ by no more than eps
Close(x, y, eps) ==
    IF FLess(x, y) THEN ~FLess(eps, FSub(y, x)) ELSE ~FLess(eps, FSub(x, y))

C34_NoPermanentLockout ==
    (dbl.last.made /\ dbl.last.polled.allowed = 0)
    ~> (dbl.last.made /\ dbl.last.polled.allowed = 1)

\* C34 witness: the caller was denied several times running, each time within the time
\* the rate needs for one token, and was then allowed.
C34_Witness ==
    /\ dbl.last.made
    /\ dbl.last.polled.allowed = 1
    /\ dbl.last.skipped >= 3
    /\ dbl.t = MaxSeconds
    /\ FLess(FMul(2, dbl.rate), FOne)

\* C35: every Allow that has returned gave exactly one of a result and an error, whatever
\* the store replied, and the middleware did not panic on a missing result: without an
\* error it answered with the headers it read from the result.
C35_ResultXorError ==
    \A p \in Callers :
        req[p].returned.made
        => /\ req[p].returned.result # req[p].returned.err
           /\ resp[p].status # "panic"
           /\ req[p].returned.err => resp[p].status = "next" /\ resp[p].headers = {}
           /\ req[p].returned.result => resp[p].headers # {}

\* C35 witness: one caller's Allow returned an error for a reply it could not parse and
\* its request went on, the other's returned a result and was answered from it.
C35_Witness ==
    \E p, q \in Callers :
        /\ req[p].returned.made /\ req[p].returned.err /\ ~req[p].returned.result
        /\ req[p].reply.kind = "malformed"
        /\ resp[p].status = "next"
        /\ req[q].returned.made /\ req[q].returned.result /\ ~req[q].returned.err
        /\ resp[q].status = "429"

====
